---- MODULE Spec2Model ----
(***************************************************************************)
(* Model of the GOES download scripts nasa_spaceApp/geos.py and            *)
(* public/geos_old.py: URL construction, the file-exists cache in          *)
(* get_goes, make_goes_timeseries and the loop of get_goes_by_date.        *)
(*                                                                         *)
(* Representation.  A Python string that is cut at '/' (a URL, a file      *)
(* name, a directory) is the sequence of its '/'-separated segments, so    *)
(* that os.path.join and str.split('/') are computed, not assumed.  A      *)
(* date string is the sequence of its characters.  Python's None is the    *)
(* empty sequence, which is the segment list of no string.                 *)
(***************************************************************************)
EXTENDS Integers, Sequences, FiniteSets, TLC

VARIABLES
    fs,         \* local file system of nasa_spaceApp/geos.py: file name -> content
    fsOld,      \* local file system of public/geos_old.py
    last,       \* outcome of the latest get_goes call of geos.py
    lastOld,    \* outcome of the same call made to get_goes of geos_old.py
    calls,      \* number of get_goes calls made so far
    ptype,      \* argument of the latest construct_path call
    presult,    \* value returned by the latest construct_path call
    data,       \* dataset handed to make_goes_timeseries (columns)
    table,      \* table returned by make_goes_timeseries (rows)
    idx,        \* get_goes_by_date: position in the nested loop
    processed,  \* get_goes_by_date: the combinations whose body was entered
    iter,       \* get_goes_by_date: what the latest loop body did
    raised      \* get_goes_by_date: an exception left the function

vars == <<fs, fsOld, last, lastOld, calls, ptype, presult, data, table,
          idx, processed, iter, raised>>

None == <<>>

----------------------------------------------------------------------------
(* Bounds of the model *)

MaxCalls == 2
MaxRows == 3
NumSats == 2

----------------------------------------------------------------------------
(* Module constants of geos.py and geos_old.py *)

DATA_PATH == <<"nasa_spaceApp", "data">>
NGDC_URL == <<"https:", "", "data.ngdc.noaa.gov", "platforms",
              "solar-space-observing-satellites", "goes", "">>

BASE_URL == <<"https:", "", "data.ngdc.noaa.gov", "platforms",
              "solar-space-observing-satellites", "goes", "">>
API_VERSION_other == "_v1-0-0"
API_VERSION == "_v2-1-0"

XRS_X1S == <<"xrsf-l2-flx1s_science", "sci_xrsf-l2-flx1s_g", "_v2-1-0">>
XRS_SUM == <<"xrsf-l2-flsum_science", "sci_xrsf-l2-flsum_g", "_v2-1-0">>
XRS_LOC == <<"xrsf-l2-flloc_science", "sci_xrsf-l2-flloc_g", "_v2-1-0">>
XRS_DET == <<"xrsf-l2-fldet_science", "sci_xrsf-l2-fldet_g", "_v2-1-0">>
XRS_KD1 == <<"xrsf-l2-bkd1d_science", "sci_xrsf-l2-bkd1d_g", "_v2-1-0">>
EPHE == <<"ephe-l2-orb1m", "dn_ephe-l2-orb1m_g", "_v0-0-3">>
EUV_AVG1D == <<"euvs-l2-avg1d_science", "sci_euvs-l2-avg1d_g", "_v1-0-1">>
EUV_AVG1M == <<"euvs-l2-avg1m_science", "sci_euvs-l2-avg1m_g", "_v1-0-1">>
MAG_HI == <<"magn-l2-hires", "dn_magn-l2-hires_g", "_v1-0-1">>

----------------------------------------------------------------------------
(* construct_path: the if/elif chain of geos.py *)

construct_path_no_ephe(type) ==
    IF type = "xrs-x1s" THEN <<XRS_X1S[1], XRS_X1S[2], XRS_X1S[3]>>
    ELSE IF type = "xrs-sum" THEN <<XRS_SUM[1], XRS_SUM[2], XRS_SUM[3]>>
    ELSE IF type = "xrs-loc" THEN <<XRS_LOC[1], XRS_LOC[2], XRS_LOC[3]>>
    ELSE IF type = "xrs-det" THEN <<XRS_DET[1], XRS_DET[2], XRS_DET[3]>>
    ELSE IF type = "xrs-kd1" THEN <<XRS_KD1[1], XRS_KD1[2], XRS_KD1[3]>>
    ELSE IF type = "euv-avg1d" THEN <<EUV_AVG1D[1], EUV_AVG1D[2], EUV_AVG1D[3]>>
    ELSE IF type = "euv-avg1m" THEN <<EUV_AVG1M[1], EUV_AVG1M[2], EUV_AVG1M[3]>>
    ELSE IF type = "mag-hi" THEN <<MAG_HI[1], MAG_HI[2], MAG_HI[3]>>
    ELSE <<XRS_X1S[1], XRS_X1S[2], XRS_X1S[3]>>

construct_path(type) ==
    IF type = "xrs-x1s" THEN <<XRS_X1S[1], XRS_X1S[2], XRS_X1S[3]>>
    ELSE IF type = "xrs-sum" THEN <<XRS_SUM[1], XRS_SUM[2], XRS_SUM[3]>>
    ELSE IF type = "xrs-loc" THEN <<XRS_LOC[1], XRS_LOC[2], XRS_LOC[3]>>
    ELSE IF type = "xrs-det" THEN <<XRS_DET[1], XRS_DET[2], XRS_DET[3]>>
    ELSE IF type = "xrs-kd1" THEN <<XRS_KD1[1], XRS_KD1[2], XRS_KD1[3]>>
    ELSE IF type = "ephe" THEN <<EPHE[1], EPHE[2], EPHE[3]>>
    ELSE IF type = "euv-avg1d" THEN <<EUV_AVG1D[1], EUV_AVG1D[2], EUV_AVG1D[3]>>
    ELSE IF type = "euv-avg1m" THEN <<EUV_AVG1M[1], EUV_AVG1M[2], EUV_AVG1M[3]>>
    ELSE IF type = "mag-hi" THEN <<MAG_HI[1], MAG_HI[2], MAG_HI[3]>>
    ELSE <<XRS_X1S[1], XRS_X1S[2], XRS_X1S[3]>>

----------------------------------------------------------------------------
(* String helpers: parse_time, strftime, str.replace, os.path.join *)

Digit(c) ==
    CASE c = "0" -> 0 [] c = "1" -> 1 [] c = "2" -> 2 [] c = "3" -> 3
      [] c = "4" -> 4 [] c = "5" -> 5 [] c = "6" -> 6 [] c = "7" -> 7
      [] c = "8" -> 8 [] c = "9" -> 9

Chars == {"0", "1", "2", "3", "4", "5", "6", "7", "8", "9", "-"}

Front(s) == SubSeq(s, 1, Len(s) - 1)

\* the number a digit string reads as
Number[cs \in Seq(Chars)] ==
    IF cs = <<>> THEN 0
    ELSE 10 * Number[Front(cs)] + Digit(cs[Len(cs)])

\* parse_time of a 'YYYY-MM-DD' string
parse_time(s) ==
    [Y |-> Number[SubSeq(s, 1, 4)],
     m |-> Number[SubSeq(s, 6, 7)],
     d |-> Number[SubSeq(s, 9, 10)]]

Pad2(n) == IF n < 10 THEN "0" \o ToString(n) ELSE ToString(n)

Pad4(n) ==
    IF n < 10 THEN "000" \o ToString(n)
    ELSE IF n < 100 THEN "00" \o ToString(n)
    ELSE IF n < 1000 THEN "0" \o ToString(n)
    ELSE ToString(n)

\* date.strftime(fmt) for the three formats the scripts use
strftime(date, fmt) ==
    CASE fmt = "%Y" -> Pad4(date.Y)
      [] fmt = "%m" -> Pad2(date.m)
      [] fmt = "%Y%m%d" -> Pad4(date.Y) \o Pad2(date.m) \o Pad2(date.d)

\* s.replace('-', '') of a character sequence, as one string
replace_dash[s \in Seq(Chars)] ==
    IF s = <<>> THEN ""
    ELSE IF s[1] = "-" THEN replace_dash[Tail(s)]
    ELSE s[1] \o replace_dash[Tail(s)]

\* os.path.join(a, b) of two strings given as '/'-segments
path_join(a, b) ==
    IF Len(b) > 1 /\ b[1] = "" THEN b
    ELSE IF a[Len(a)] = "" THEN Front(a) \o b
    ELSE a \o b

\* url.split('/')[-1]
split_last(url) == url[Len(url)]

----------------------------------------------------------------------------
(* The network and the local file system *)

\* What one urllib.request.urlretrieve(url, filename) call can meet:
\*   ok               the body is read to the end and written to filename
\*   http_error       urlopen raises (HTTPError, URLError, timeout)
\*   local_open_error open(filename, 'wb') raises (no directory, no permission)
\*   short_read       the file is opened, then the read raises or ends early
\*                    (ContentTooShortError); what was written stays on disk
NetOutcomes == {"ok", "http_error", "local_open_error", "short_read"}

EmptyFs == [n \in {} |-> None]

exists(fsIn, filename) == filename \in DOMAIN fsIn

write_file(fsIn, filename, content) ==
    [n \in DOMAIN fsIn \cup {filename} |->
        IF n = filename THEN content ELSE fsIn[n]]

Downloaded(url, whole) == [kind |-> "download", url |-> url, complete |-> whole]

urlretrieve_retry(fsIn, url, filename, net) ==
    CASE net = "ok" ->
           [fs |-> write_file(fsIn, filename, Downloaded(url, TRUE)),
            gets |-> <<url>>, raised |-> FALSE]
      [] net = "short_read" ->
           [fs |-> write_file(fsIn, filename, Downloaded(url, FALSE)),
            gets |-> <<url, url>>, raised |-> TRUE]
      [] OTHER ->
           [fs |-> fsIn, gets |-> <<url, url>>, raised |-> TRUE]

\* urllib.request.urlretrieve: urlopen(url) first, then open(filename, 'wb'),
\* then the copy loop
urlretrieve(fsIn, url, filename, net) ==
    CASE net = "ok" ->
           [fs |-> write_file(fsIn, filename, Downloaded(url, TRUE)),
            gets |-> <<url>>, raised |-> FALSE]
      [] net = "short_read" ->
           [fs |-> write_file(fsIn, filename, Downloaded(url, FALSE)),
            gets |-> <<url>>, raised |-> TRUE]
      [] OTHER ->
           [fs |-> fsIn, gets |-> <<url>>, raised |-> TRUE]

----------------------------------------------------------------------------
(* get_goes of nasa_spaceApp/geos.py *)

goes_url(date, sat, type) ==
    LET paths == construct_path(type)
        path_one == paths[1]
        path_two == paths[2]
        version == paths[3]
        d == parse_time(date)
    IN  path_join(NGDC_URL,
            <<"goes" \o ToString(sat), "l2", "data", path_one,
              strftime(d, "%Y"), strftime(d, "%m"),
              path_two \o ToString(sat) \o "_d" \o strftime(d, "%Y%m%d")
                       \o version \o ".nc">>)

goes_filename(url, path) ==
    IF path # None THEN path_join(path, <<split_last(url)>>)
    ELSE <<split_last(url)>>

download_reraise(fsIn, url, filename, net) ==
    LET r == urlretrieve(fsIn, url, filename, net)
    IN  IF r.raised
        THEN [ret |-> None, gets |-> r.gets, log |-> <<>>,
              fs |-> r.fs, raised |-> TRUE]
        ELSE [ret |-> IF exists(r.fs, filename) THEN filename ELSE None,
              gets |-> r.gets, log |-> <<>>, fs |-> r.fs, raised |-> FALSE]

download_no_recheck(fsIn, url, filename, net) ==
    LET r == urlretrieve(fsIn, url, filename, net)
    IN  [ret |-> filename, gets |-> r.gets,
         log |-> IF r.raised THEN << <<"Download failed">> >> ELSE <<>>,
         fs |-> r.fs, raised |-> FALSE]

\* the else branch of get_goes: try: urlretrieve, re-check; except: print, None
download(fsIn, url, filename, net) ==
    LET r == urlretrieve(fsIn, url, filename, net)
    IN  IF r.raised
        THEN [ret |-> None, gets |-> r.gets, log |-> << <<"Download failed">> >>,
              fs |-> r.fs, raised |-> FALSE]
        ELSE [ret |-> IF exists(r.fs, filename) THEN filename ELSE None,
              gets |-> r.gets, log |-> <<>>, fs |-> r.fs, raised |-> FALSE]

get_goes_always_download(fsIn, date, sat, type, path, net) ==
    LET url == goes_url(date, sat, type)
        filename == goes_filename(url, path)
        r == download(fsIn, url, filename, net)
    IN  [url |-> url, filename |-> filename, ret |-> r.ret, gets |-> r.gets,
         log |-> <<url>> \o r.log, fs |-> r.fs, raised |-> r.raised]

get_goes(fsIn, date, sat, type, path, net) ==
    LET url == goes_url(date, sat, type)
        filename == goes_filename(url, path)
    IN  IF exists(fsIn, filename)
        THEN [url |-> url, filename |-> filename, ret |-> filename,
              gets |-> <<>>, log |-> <<url>>, fs |-> fsIn, raised |-> FALSE]
        ELSE LET r == download(fsIn, url, filename, net)
             IN  [url |-> url, filename |-> filename, ret |-> r.ret,
                  gets |-> r.gets, log |-> <<url>> \o r.log, fs |-> r.fs,
                  raised |-> r.raised]

----------------------------------------------------------------------------
(* get_goes of public/geos_old.py *)

old_url(date, sat) ==
    LET d == parse_time(date)
    IN  path_join(BASE_URL,
            <<"goes" \o ToString(sat), "l2", "data", "xrsf-l2-flx1s_science",
              strftime(d, "%Y"), strftime(d, "%m"),
              "sci_xrsf-l2-flx1s_g" \o ToString(sat) \o "_d"
                  \o strftime(d, "%Y%m%d") \o API_VERSION \o ".nc">>)

get_goes_old(fsIn, date, sat, path, net) ==
    LET url == old_url(date, sat)
        filename == goes_filename(url, path)
    IN  IF exists(fsIn, filename)
        THEN [url |-> url, filename |-> filename, ret |-> filename,
              gets |-> <<>>, log |-> <<>>, fs |-> fsIn, raised |-> FALSE]
        ELSE LET r == download(fsIn, url, filename, net)
             IN  [url |-> url, filename |-> filename, ret |-> r.ret,
                  gets |-> r.gets, log |-> r.log, fs |-> r.fs,
                  raised |-> r.raised]

----------------------------------------------------------------------------
(* Inputs the calls are drawn from *)

Date_2022_10_02 == <<"2", "0", "2", "2", "-", "1", "0", "-", "0", "2">>
Date_2022_09_30 == <<"2", "0", "2", "2", "-", "0", "9", "-", "3", "0">>

CallDates == {Date_2022_10_02, Date_2022_09_30}
CallSats == {16, 17}
\* 'xrs' is the default of the parameter and takes the else branch
CallTypes == {"xrs-x1s", "xrs-sum", "xrs"}
CallPaths == {None, DATA_PATH}

NoCall ==
    [date |-> <<>>, sat |-> 0, type |-> "", path |-> None, net |-> "",
     url |-> None, filename |-> None, ret |-> None, gets |-> <<>>,
     log |-> <<>>, raised |-> FALSE]

Outcome(date, sat, type, path, net, r) ==
    [date |-> date, sat |-> sat, type |-> type, path |-> path, net |-> net,
     url |-> r.url, filename |-> r.filename, ret |-> r.ret, gets |-> r.gets,
     log |-> r.log, raised |-> r.raised]

NoData == [time |-> <<>>, xrsa_flux |-> <<>>, xrsb_flux |-> <<>>]
NoTable == [made |-> FALSE, columns |-> <<>>, rows |-> <<>>]
NoIter == [combo |-> <<>>, files |-> None, parsed |-> FALSE, wrote |-> "none",
           output_file |-> None, gets |-> <<>>]

\* the variables a specification does not use keep these values
IdleGet == fs = EmptyFs /\ fsOld = EmptyFs /\ last = NoCall
           /\ lastOld = NoCall /\ calls = 0
IdlePath == ptype = "" /\ presult = <<>>
IdleSeries == data = NoData /\ table = NoTable
IdleLoop == idx = <<0, 0, 0>> /\ processed = <<>> /\ iter = NoIter /\ raised = FALSE

----------------------------------------------------------------------------
(* Spec: any sequence of get_goes calls, made to both scripts, starting     *)
(* from an empty data directory                                             *)

Init == IdleGet /\ IdlePath /\ IdleSeries /\ IdleLoop

Call ==
    /\ calls < MaxCalls
    /\ \E date \in CallDates, sat \in CallSats, type \in CallTypes,
          path \in CallPaths, net \in NetOutcomes :
          LET r == get_goes(fs, date, sat, type, path, net)
              o == get_goes_old(fsOld, date, sat, path, net)
          IN  /\ last' = Outcome(date, sat, type, path, net, r)
              /\ fs' = r.fs
              /\ lastOld' = Outcome(date, sat, "", path, net, o)
              /\ fsOld' = o.fs
    /\ calls' = calls + 1
    /\ UNCHANGED <<ptype, presult, data, table, idx, processed, iter, raised>>

Next == Call

Spec == Init /\ [][Next]_vars

----------------------------------------------------------------------------
(* Claims about get_goes, checked under Spec *)

Called == calls' = calls + 1

\* C1: a call that finds a file at the computed local filename (the last
\* segment of the URL, under path when path is given) returns that
\* filename, issues no HTTP request and leaves the file system unchanged.
C1_CacheHit ==
    [][(Called /\ last'.filename \in DOMAIN fs) =>
          /\ last'.filename =
                (IF last'.path = None THEN <<>> ELSE last'.path)
                    \o <<last'.url[Len(last'.url)]>>
          /\ last'.ret = last'.filename
          /\ last'.gets = <<>>
          /\ ~last'.raised
          /\ fs' = fs]_vars

C1_Witness ==
    /\ calls = 2
    /\ last.path = DATA_PATH
    /\ last.ret = last.filename
    /\ last.gets = <<>>
    /\ last.filename \in DOMAIN fs

\* C2: a call whose local file does not exist issues exactly one GET, for
\* the constructed URL, whether it succeeds or fails; no call issues more
\* than one GET.
C2_SingleGet ==
    [][Called =>
          /\ last'.filename \notin DOMAIN fs => last'.gets = <<last'.url>>
          /\ Len(last'.gets) <= 1]_vars

C2_Witness ==
    /\ calls = 2
    /\ last.net = "short_read"
    /\ last.gets = <<last.url>>
    /\ last.ret = None

\* C3: when the local file does not exist and the download fails, get_goes
\* prints "Download failed" and returns None; no exception leaves it.
C3_DownloadFailure ==
    [][(Called /\ last'.filename \notin DOMAIN fs /\ last'.net # "ok") =>
          /\ \E i \in DOMAIN last'.log : last'.log[i] = <<"Download failed">>
          /\ last'.ret = None
          /\ ~last'.raised]_vars

C3_Witness ==
    /\ calls > 0
    /\ last.net = "http_error"
    /\ last.gets = <<last.url>>
    /\ last.ret = None
    /\ last.log = <<last.url, <<"Download failed">> >>

\* C4: a call that finds the file or downloads it returns the filename; a
\* value other than None that get_goes returns is the computed local
\* filename, and a file exists under it when the call returns.
C4_ReturnValue ==
    [][Called =>
          /\ (last'.filename \in DOMAIN fs \/ last'.net = "ok")
                => last'.ret = last'.filename
          /\ last'.ret # None =>
                /\ last'.ret = goes_filename(last'.url, last'.path)
                /\ last'.ret \in DOMAIN fs']_vars

C4_Witness ==
    /\ calls > 0
    /\ last.net = "ok"
    /\ last.gets = <<last.url>>
    /\ last.ret = last.filename
    /\ last.ret \in DOMAIN fs
    /\ fs[last.ret].complete

\* C6: from the same file system and under the same network behaviour,
\* get_goes of geos.py with type 'xrs-x1s' and get_goes of geos_old.py build
\* the same URL and filename, issue the same requests, leave the same files
\* and return the same value.
C6_SameSteps ==
    [][(Called /\ fs = fsOld /\ last'.type = "xrs-x1s") =>
          /\ last'.url = lastOld'.url
          /\ last'.filename = lastOld'.filename
          /\ last'.gets = lastOld'.gets
          /\ last'.ret = lastOld'.ret
          /\ last'.raised = lastOld'.raised
          /\ fs' = fsOld']_vars

C6_Witness ==
    /\ calls = 2
    /\ last.type = "xrs-x1s"
    /\ fs = fsOld
    /\ Cardinality(DOMAIN fs) = 2
    /\ last.gets = <<last.url>>
    /\ last.ret = lastOld.ret
    /\ last.ret # None

\* C10: every file present under a cache filename holds the complete
\* content of a successful download of its URL, so no call returns a file
\* that a failed download left behind.
C10_CacheIntegrity ==
    /\ \A n \in DOMAIN fs : fs[n].complete
    /\ last.ret # None => fs[last.ret].complete

----------------------------------------------------------------------------
(* SpecPath: construct_path applied to allowed and other type strings *)

AllowedTypes == {"xrs-x1s", "xrs-sum", "xrs-loc", "xrs-det", "xrs-kd1",
                 "ephe", "euv-avg1d", "euv-avg1m", "mag-hi"}
OtherTypes == {"xrs", "", "XRS-X1S", "euv", "mag-hi "}
TypeInputs == AllowedTypes \cup OtherTypes

\* presult holds the latest call (its argument and what it returned);
\* ptype is the argument of the call to come
InitPath ==
    /\ IdleGet /\ IdleSeries /\ IdleLoop
    /\ ptype \in TypeInputs
    /\ presult = <<>>

ConstructPath ==
    /\ presult' = [type |-> ptype, paths |-> construct_path(ptype)]
    /\ ptype' \in TypeInputs
    /\ UNCHANGED <<fs, fsOld, last, lastOld, calls, data, table,
                   idx, processed, iter, raised>>

SpecPath == InitPath /\ [][ConstructPath]_vars

\* C5: for each of the nine allowed type strings construct_path returns the
\* three fragments of that type's constant; for every other input,
\* including the default 'xrs' of get_goes, it returns those of XRS_X1S.
C5_StaticLookup ==
    presult # <<>> =>
        LET t == presult.type
            p == presult.paths
        IN  /\ t = "xrs-x1s" => p = XRS_X1S
            /\ t = "xrs-sum" => p = XRS_SUM
            /\ t = "xrs-loc" => p = XRS_LOC
            /\ t = "xrs-det" => p = XRS_DET
            /\ t = "xrs-kd1" => p = XRS_KD1
            /\ t = "ephe" => p = EPHE
            /\ t = "euv-avg1d" => p = EUV_AVG1D
            /\ t = "euv-avg1m" => p = EUV_AVG1M
            /\ t = "mag-hi" => p = MAG_HI
            /\ t \notin AllowedTypes => p = XRS_X1S
            /\ Len(p) = 3

C5_Witness ==
    /\ presult # <<>>
    /\ presult.type = "ephe"
    /\ presult.paths = <<"ephe-l2-orb1m", "dn_ephe-l2-orb1m_g", "_v0-0-3">>
    /\ ptype = "xrs"

----------------------------------------------------------------------------
(* SpecSeries: make_goes_timeseries applied to small datasets *)

Times == 1..3
FluxA == {10, 11}
FluxB == {20, 21}

Datasets ==
    UNION {{[time |-> t, xrsa_flux |-> a, xrsb_flux |-> b] :
                t \in [1..n -> Times], a \in [1..n -> FluxA],
                b \in [1..n -> FluxB]} : n \in 0..MaxRows}

\* pd.DataFrame({'xrsa': xrsa, 'xrsb': xrsb}, index=tt): row i takes the
\* i-th entry of each array
DataFrame(xrsa, xrsb, tt) ==
    [i \in 1..Len(tt) |-> [time |-> tt[i], xrsa |-> xrsa[i], xrsb |-> xrsb[i]]]

\* one row put into rows already ordered by index; where rows of equal
\* index go is not fixed by the default (unstable) sort kind
RECURSIVE insert(_, _, _)
insert(row, rows, tiesFirst) ==
    IF rows = <<>> THEN <<row>>
    ELSE IF row.time < rows[1].time \/ (tiesFirst /\ row.time = rows[1].time)
         THEN <<row>> \o rows
         ELSE <<rows[1]>> \o insert(row, Tail(rows), tiesFirst)

\* data.sort_index(inplace=True)
RECURSIVE sort_index(_, _)
sort_index(rows, tiesFirst) ==
    IF rows = <<>> THEN <<>>
    ELSE insert(rows[Len(rows)], sort_index(Front(rows), tiesFirst), tiesFirst)

make_goes_timeseries_swapped(dataset, tiesFirst) ==
    LET xrsb == dataset.xrsa_flux
        xrsa == dataset.xrsb_flux
        tt == dataset.time
        frame == DataFrame(xrsa, xrsb, tt)
    IN  [made |-> TRUE, columns |-> <<"xrsa", "xrsb">>,
         rows |-> sort_index(frame, tiesFirst)]

make_goes_timeseries(dataset, tiesFirst) ==
    LET xrsb == dataset.xrsb_flux
        xrsa == dataset.xrsa_flux
        tt == dataset.time
        frame == DataFrame(xrsa, xrsb, tt)
    IN  [made |-> TRUE, columns |-> <<"xrsa", "xrsb">>,
         rows |-> sort_index(frame, tiesFirst)]

InitSeries ==
    /\ IdleGet /\ IdlePath /\ IdleLoop
    /\ data \in Datasets
    /\ table = NoTable

MakeSeries ==
    /\ ~table.made
    /\ \E tiesFirst \in BOOLEAN :
          table' = make_goes_timeseries(data, tiesFirst)
    /\ UNCHANGED <<fs, fsOld, last, lastOld, calls, ptype, presult, data,
                   idx, processed, iter, raised>>

SpecSeries == InitSeries /\ [][MakeSeries]_vars

Occurrences(seq, x) == Cardinality({i \in DOMAIN seq : seq[i] = x})

InputRows ==
    [i \in DOMAIN data.time |->
        [time |-> data.time[i], xrsa |-> data.xrsa_flux[i],
         xrsb |-> data.xrsb_flux[i]]]

\* C7: the table has exactly the value columns xrsa (from xrsa_flux) and
\* xrsb (from xrsb_flux), its rows are a permutation of the input rows, each
\* flux pair with its own time, and they are in non-decreasing time order.
C7_SortedPermutation ==
    table.made =>
        /\ table.columns = <<"xrsa", "xrsb">>
        /\ Len(table.rows) = Len(data.time)
        /\ \A i \in DOMAIN table.rows :
              Occurrences(table.rows, table.rows[i])
                  = Occurrences(InputRows, table.rows[i])
        /\ \A i \in DOMAIN InputRows :
              Occurrences(table.rows, InputRows[i])
                  = Occurrences(InputRows, InputRows[i])
        /\ \A i, j \in DOMAIN table.rows :
              i < j => table.rows[i].time <= table.rows[j].time

C7_Witness ==
    /\ table.made
    /\ data.time = <<3, 1, 1>>
    /\ data.xrsa_flux = <<10, 11, 10>>
    /\ data.xrsb_flux = <<21, 20, 21>>
    /\ table.rows[3] = [time |-> 3, xrsa |-> 10, xrsb |-> 21]
    /\ table.rows[1] = [time |-> 1, xrsa |-> 10, xrsb |-> 21]

----------------------------------------------------------------------------
(* get_goes_by_date: the nested loop with its try/except body *)

AllSats == <<16, 17, 18>>
AllDates ==
    << <<"2", "0", "2", "2", "-", "1", "0", "-", "0", "2">>,
       <<"2", "0", "2", "2", "-", "1", "0", "-", "0", "1">>,
       <<"2", "0", "2", "2", "-", "0", "9", "-", "3", "0">>,
       <<"2", "0", "2", "2", "-", "0", "9", "-", "2", "9">>,
       <<"2", "0", "2", "2", "-", "0", "9", "-", "2", "8">>,
       <<"2", "0", "2", "2", "-", "0", "9", "-", "2", "7">>,
       <<"2", "0", "2", "2", "-", "0", "9", "-", "2", "6">>,
       <<"2", "0", "2", "2", "-", "0", "9", "-", "2", "5">>,
       <<"2", "0", "2", "2", "-", "0", "9", "-", "2", "4">>,
       <<"2", "0", "2", "2", "-", "0", "9", "-", "2", "3">>,
       <<"2", "0", "2", "2", "-", "0", "9", "-", "2", "2">>,
       <<"2", "0", "2", "2", "-", "0", "9", "-", "2", "1">>,
       <<"2", "0", "2", "2", "-", "0", "9", "-", "2", "0">> >>

\* the lists of the function; the model runs the loop over the first
\* NumSats satellites and the first two of the thirteen dates (one in
\* October, one in September)
satList == SubSeq(AllSats, 1, NumSats)
typeList == <<"xrs-x1s">>
dateList == <<AllDates[1], AllDates[3]>>

\* f"{DATA_PATH}/goes-{sat}-{type}-{date.replace('-', '')}.json"
output_name(type, sat, date) ==
    DATA_PATH \o <<"goes-" \o ToString(sat) \o "-" \o type \o "-"
                     \o replace_dash[date] \o ".json">>

Json(source, whole) == [kind |-> "json", source |-> source, complete |-> whole]

\* Where the body raises once get_goes has returned a file name:
\*   parse  make_goes_timeseries raises (not a NetCDF file, a variable missing)
\*   table  TimeSeries(concat=True) or to_table raises
\*   open   goes_table.write raises before the output file is opened
\*   write  goes_table.write raises after it has written part of the file
\*   none   nothing raises
Raises == {"parse", "table", "open", "write", "none"}

loop_body_propagate(g, type, sat, date, raises) ==
    LET output_file == output_name(type, sat, date)
        files == g.ret
        parsed == files # None /\ raises # "parse"
        wrote == IF ~parsed \/ raises \in {"table", "open"} THEN "none"
                 ELSE IF raises = "write" THEN "partial" ELSE "complete"
    IN  [fs |-> IF wrote = "none" THEN g.fs
                ELSE write_file(g.fs, output_file,
                                Json(files, wrote = "complete")),
         iter |-> [combo |-> <<type, sat, date>>, files |-> files,
                   parsed |-> parsed, wrote |-> wrote,
                   output_file |-> output_file, gets |-> g.gets],
         raised |-> g.raised \/ wrote # "complete"]

loop_body_write_first(g, type, sat, date, raises) ==
    LET output_file == output_name(type, sat, date)
        files == g.ret
        parsed == files # None /\ raises # "parse"
        wrote == IF raises = "open" THEN "none"
                 ELSE IF ~parsed \/ raises \in {"table", "write"} THEN "partial"
                 ELSE "complete"
    IN  [fs |-> IF wrote = "none" THEN g.fs
                ELSE write_file(g.fs, output_file,
                                Json(files, wrote = "complete")),
         iter |-> [combo |-> <<type, sat, date>>, files |-> files,
                   parsed |-> parsed, wrote |-> wrote,
                   output_file |-> output_file, gets |-> g.gets],
         raised |-> FALSE]

\* one pass through the try block once get_goes has returned g; the bare
\* except turns every exception into continue.  make_goes_timeseries(None)
\* raises, so a None from get_goes ends the pass before anything is written.
loop_body(g, type, sat, date, raises) ==
    LET output_file == output_name(type, sat, date)
        files == g.ret
        parsed == files # None /\ raises # "parse"
        wrote == IF ~parsed \/ raises \in {"table", "open"} THEN "none"
                 ELSE IF raises = "write" THEN "partial" ELSE "complete"
    IN  [fs |-> IF wrote = "none" THEN g.fs
                ELSE write_file(g.fs, output_file,
                                Json(files, wrote = "complete")),
         iter |-> [combo |-> <<type, sat, date>>, files |-> files,
                   parsed |-> parsed, wrote |-> wrote,
                   output_file |-> output_file, gets |-> g.gets],
         raised |-> FALSE]

\* the three for statements: the position after the one at <<t, s, d>>
next_position(pos) ==
    IF pos[3] < Len(dateList) THEN <<pos[1], pos[2], pos[3] + 1>>
    ELSE IF pos[2] < Len(satList) THEN <<pos[1], pos[2] + 1, 1>>
    ELSE <<pos[1] + 1, 1, 1>>

Returned == idx[1] > Len(typeList)

\* what the data directory may hold when the function starts: nothing, the
\* first combination's data file from an earlier run, or its output file
FirstUrl == goes_url(dateList[1], satList[1], typeList[1])
FirstFile == goes_filename(FirstUrl, DATA_PATH)
FirstOutput == output_name(typeList[1], satList[1], dateList[1])
StartFs ==
    {EmptyFs,
     write_file(EmptyFs, FirstFile, Downloaded(FirstUrl, TRUE)),
     write_file(EmptyFs, FirstOutput, Json(FirstFile, TRUE))}

InitLoop ==
    /\ IdlePath /\ IdleSeries
    /\ fs \in StartFs
    /\ fsOld = EmptyFs /\ last = NoCall /\ lastOld = NoCall /\ calls = 0
    /\ idx = <<1, 1, 1>>
    /\ processed = <<>>
    /\ iter = NoIter
    /\ raised = FALSE

Body ==
    /\ idx[1] >= 1
    /\ ~Returned
    /\ ~raised
    /\ \E net \in NetOutcomes, raises \in Raises :
          \E g \in {get_goes(fs, dateList[idx[3]], satList[idx[2]],
                             typeList[idx[1]], DATA_PATH, net)} :
             \E b \in {loop_body(g, typeList[idx[1]], satList[idx[2]],
                                 dateList[idx[3]], raises)} :
                /\ fs' = b.fs
                /\ iter' = b.iter
                /\ raised' = b.raised
    /\ processed' = Append(processed, iter'.combo)
    /\ idx' = IF raised' THEN idx ELSE next_position(idx)
    /\ UNCHANGED <<fsOld, last, lastOld, calls, ptype, presult, data, table>>

SpecLoop == InitLoop /\ [][Body]_vars

\* what every pass does to the loop position
Advance ==
    /\ idx[1] >= 1
    /\ ~Returned
    /\ ~raised
    /\ idx' = next_position(idx)

\* the interpreter runs the loop on: while a pass can be made, one is made
FairLoop == SpecLoop /\ WF_idx(Advance)

----------------------------------------------------------------------------
(* Claims about get_goes_by_date, checked under FairLoop *)

\* the k-th combination of typeList x satList x dateList, types outermost
\* and dates innermost
Combination(k) ==
    LET S == Len(satList)
        D == Len(dateList)
    IN  <<typeList[((k - 1) \div (S * D)) + 1],
          satList[(((k - 1) \div D) % S) + 1],
          dateList[((k - 1) % D) + 1]>>

Total == Len(typeList) * Len(satList) * Len(dateList)

\* C8: the loop enters the body once for every combination, types
\* outermost, then satellites, then dates; a failing download, parse or
\* write never keeps the later combinations from being attempted, and the
\* function returns after the last one without raising.
C8_CatchAndContinue ==
    /\ [](/\ ~raised
          /\ Len(processed) <= Total
          /\ \A k \in DOMAIN processed : processed[k] = Combination(k)
          /\ Returned => Len(processed) = Total)
    /\ <>(Returned /\ ~raised /\ Len(processed) = Total)

C8_Witness ==
    /\ Returned
    /\ Len(processed) = Total
    /\ processed[2] = <<"xrs-x1s", 16, AllDates[3]>>
    /\ processed[3] = <<"xrs-x1s", 17, AllDates[1]>>
    /\ DOMAIN fs = {output_name("xrs-x1s", 17, AllDates[3]),
                    goes_filename(goes_url(AllDates[3], 17, "xrs-x1s"),
                                  DATA_PATH)}

OutputFiles ==
    {output_name(typeList[t], satList[s], dateList[d]) :
        t \in DOMAIN typeList, s \in DOMAIN satList, d \in DOMAIN dateList}

Untouched(f) == (f \in DOMAIN fs <=> f \in DOMAIN fs')
                /\ (f \in DOMAIN fs => fs'[f] = fs[f])

\* C9: a pass creates or overwrites the output file of its combination
\* only if get_goes returned a filename and make_goes_timeseries succeeded
\* on it; when get_goes returns None no output file is created or modified.
C9_OutputOnlyAfterParse ==
    [][Len(processed') = Len(processed) + 1 =>
          /\ iter'.output_file
                = output_name(iter'.combo[1], iter'.combo[2], iter'.combo[3])
          /\ (iter'.wrote # "none" \/ ~Untouched(iter'.output_file))
                => (iter'.files # None /\ iter'.parsed)
          /\ iter'.files = None => \A f \in OutputFiles : Untouched(f)
          /\ \A f \in OutputFiles \ {iter'.output_file} : Untouched(f)]_vars

C9_Witness ==
    /\ Len(processed) = 1
    /\ iter.files = None
    /\ iter.gets # <<>>
    /\ iter.output_file \in DOMAIN fs
    /\ fs[iter.output_file] = Json(FirstFile, TRUE)

====
